---- MODULE Spec2Model ----
(***************************************************************************)
(* A model of the optional_struct derivation (src/implementation/src/      *)
(* lib.rs): the macro opt_struct, which turns a base struct into a         *)
(* partial struct plus three generated operations (can_convert, try_from,  *)
(* apply_to), and the behaviour of these generated operations on           *)
(* instances of the two structs.                                           *)
(*                                                                         *)
(* The generated code is kept as data (one fragment per field, as the      *)
(* visitors accumulate it) and is run by an interpreter that follows the   *)
(* Rust semantics of each quoted fragment.                                 *)
(***************************************************************************)
EXTENDS Integers, Sequences, FiniteSets, TLC

\* ------------------------------------------------------------------------
\* Bounds of the model
\* ------------------------------------------------------------------------
MaxFields == 2        \* fields of a struct whose generated code is run
MaxAttrs == 3         \* attributes on the field whose annotations vary
MaxStructAttrs == 2   \* attributes on the base struct itself

\* ------------------------------------------------------------------------
\* Program constants
\* ------------------------------------------------------------------------
RENAME_ATTRIBUTE == "optional_rename"
SKIP_WRAP_ATTRIBUTE == "optional_skip_wrap"
WRAP_ATTRIBUTE == "optional_wrap"
CFG_ATTRIBUTE == "cfg"

\* ------------------------------------------------------------------------
\* Syntax trees handed to the macro
\* ------------------------------------------------------------------------
\* A syn::Type: its variant, the segments of its path (Type::Path) and the
\* types it contains (the generic argument of a path, the element of a
\* parenthesised or reference type).
Ty(shape, segs, elem) == [shape |-> shape, segs |-> segs, elem |-> elem]
PathTy(segs, elem) == Ty("Path", segs, elem)
IdentTy(name) == PathTy(<<name>>, <<>>)
OptionTy(t) == PathTy(<<"Option">>, <<t>>)
ParenTy(t) == Ty("Paren", <<>>, <<t>>)
TupleTy == Ty("Tuple", <<>>, <<>>)
ReferenceTy(t) == Ty("Reference", <<>>, <<t>>)
I32 == IdentTy("i32")

\* A syn::Attribute: its path and its arguments.
Attr(path, args) == [path |-> path, args |-> args]

\* A syn::Field.
Field(ident, vis, ty, attrs) == [ident |-> ident, vis |-> vis, ty |-> ty, attrs |-> attrs]

\* "Optional".to_owned() + &ident.to_string(), on the identifiers in use.
OptionalName(ident) ==
    CASE ident = "Leaf" -> "OptionalLeaf"
      [] ident = "Mid" -> "OptionalMid"
      [] ident = "Foo" -> "OptionalFoo"

\* ------------------------------------------------------------------------
\* Sequence helpers
\* ------------------------------------------------------------------------
RECURSIVE SeqsUpTo(_, _)
SeqsUpTo(S, n) ==
    IF n = 0 THEN {<<>>}
    ELSE LET shorter == SeqsUpTo(S, n - 1)
         IN shorter \cup {Append(s, x) : s \in shorter, x \in S}

Reverse(s) == [i \in 1..Len(s) |-> s[Len(s) + 1 - i]]

\* Vec::swap_remove(i) (1-based here): the last element takes the place of
\* the removed one.
swap_remove(s, i) ==
    [k \in 1..(Len(s) - 1) |-> IF k = i THEN s[Len(s)] ELSE s[k]]

\* The orders in which a set can be iterated.
RECURSIVE Orderings(_)
Orderings(S) ==
    IF S = {} THEN {<<>>}
    ELSE UNION {{<<x>> \o rest : rest \in Orderings(S \ {x})} : x \in S}

\* ------------------------------------------------------------------------
\* is_path_option / is_type_option
\* ------------------------------------------------------------------------
is_path_option(p) ==
    IF Len(p.segs) = 0 THEN FALSE ELSE p.segs[Len(p.segs)] = "Option"

\* The types on which is_type_option panics instead of answering.
RECURSIVE TypePanics(_)
TypePanics(t) ==
    CASE t.shape = "Path" -> FALSE
      [] t.shape \in {"Array", "Tuple"} -> FALSE
      [] t.shape = "Paren" -> TypePanics(t.elem[1])
      [] OTHER -> TRUE

RECURSIVE is_type_option(_)
is_type_option(t) ==
    CASE t.shape = "Path" -> is_path_option(t)
      [] t.shape \in {"Array", "Tuple"} -> FALSE
      [] t.shape = "Paren" -> is_type_option(t.elem[1])

\* ------------------------------------------------------------------------
\* ParsedMacroParameters::parse and GlobalOptions::new
\* ------------------------------------------------------------------------
\* The macro's argument tokens: nothing, a name, or a name, a comma and a
\* boolean literal.
ParseMacroParameters(tokens) ==
    LET out == [new_struct_name |-> <<>>, default_wrapping |-> TRUE]
    IN IF Len(tokens) = 0 \/ tokens[1] \in {",", "true", "false"} THEN out
       ELSE LET named == [out EXCEPT !.new_struct_name = <<tokens[1]>>]
            IN IF Len(tokens) < 2 \/ tokens[2] # "," THEN named
               ELSE IF Len(tokens) < 3 \/ tokens[3] \notin {"true", "false"} THEN named
               ELSE [named EXCEPT !.default_wrapping = (tokens[3] = "true")]

\* syn::parse2 of the macro's arguments fails, and opt_struct's unwrap
\* panics, when parse returns before the last token: the first token is no
\* identifier, or the name is followed by something other than a comma.
MacroParametersPanic(tokens) ==
    \/ Len(tokens) >= 1 /\ tokens[1] \in {",", "true", "false"}
    \/ Len(tokens) >= 2 /\ tokens[2] # ","
    \/ Len(tokens) >= 3 /\ tokens[3] \notin {"true", "false"}
    \/ Len(tokens) > 3

GlobalOptionsNew(attr, struct_definition) ==
    [new_struct_name |->
         IF attr.new_struct_name = <<>> THEN OptionalName(struct_definition.ident)
         ELSE attr.new_struct_name[1],
     extra_derive |-> <<"Clone", "PartialEq", "Default", "Debug">>,
     default_wrapping_behavior |-> attr.default_wrapping,
     make_fields_public |-> TRUE]

\* ------------------------------------------------------------------------
\* visit_fields: the options of one field
\* ------------------------------------------------------------------------
\* parse_args().expect(..): a rename attribute must carry exactly one token.
RenamePanics(a) == a.path = RENAME_ATTRIBUTE /\ Len(a.args) # 1

\* ApplyAttribute with the rename annotation leaving the wrapping as it
\* found it.
ApplyAttributeRenameKeepsWrapping(st, a) ==
    IF a.path = RENAME_ATTRIBUTE THEN
        [st EXCEPT !.new_type = <<a.args[1]>>]
    ELSE IF a.path = SKIP_WRAP_ATTRIBUTE THEN
        [st EXCEPT !.wrapping_behavior = FALSE]
    ELSE IF a.path = WRAP_ATTRIBUTE THEN
        [st EXCEPT !.wrapping_behavior = TRUE]
    ELSE IF a.path = CFG_ATTRIBUTE THEN
        [st EXCEPT !.cfg_attribute = <<a>>]
    ELSE st

\* The closure of for_each, applied to one attribute.
ApplyAttribute(st, a) ==
    IF a.path = RENAME_ATTRIBUTE THEN
        [st EXCEPT !.new_type = <<a.args[1]>>, !.wrapping_behavior = FALSE]
    ELSE IF a.path = SKIP_WRAP_ATTRIBUTE THEN
        [st EXCEPT !.wrapping_behavior = FALSE]
    ELSE IF a.path = WRAP_ATTRIBUTE THEN
        [st EXCEPT !.wrapping_behavior = TRUE]
    ELSE IF a.path = CFG_ATTRIBUTE THEN
        [st EXCEPT !.cfg_attribute = <<a>>]
    ELSE st

RECURSIVE FoldAttributes(_, _)
FoldAttributes(st, attrs) ==
    IF attrs = <<>> THEN st
    ELSE FoldAttributes(ApplyAttribute(st, Head(attrs)), Tail(attrs))

\* struct_index is the 0-based position of the field.
FieldOptionsOf(global_options, old_field, struct_index) ==
    LET start == [wrapping_behavior |->
                      ~is_type_option(old_field.ty)
                      /\ global_options.default_wrapping_behavior,
                  cfg_attribute |-> <<>>,
                  new_type |-> <<>>]
        st == FoldAttributes(start, old_field.attrs)
    IN [wrapping_behavior |-> st.wrapping_behavior,
        cfg_attribute |-> st.cfg_attribute,
        new_type |-> st.new_type,
        field_ident |-> IF old_field.ident # <<>> THEN old_field.ident[1]
                        ELSE struct_index]

\* The field makes visit_fields panic.
FieldPanics(old_field) ==
    \/ TypePanics(old_field.ty)
    \/ \E k \in 1..Len(old_field.attrs) : RenamePanics(old_field.attrs[k])

\* ------------------------------------------------------------------------
\* The field visitors
\* ------------------------------------------------------------------------
IsHelperAttribute(a) ==
    a.path \in {RENAME_ATTRIBUTE, SKIP_WRAP_ATTRIBUTE, WRAP_ATTRIBUTE}

\* indexes_to_remove of RemoveHelperAttributesVisitor, in increasing order.
HelperIndexes(attrs) ==
    SelectSeq([i \in 1..Len(attrs) |-> i], LAMBDA i : IsHelperAttribute(attrs[i]))

\* for i in indexes: attrs.swap_remove(i)
RECURSIVE SwapRemoveAll(_, _)
SwapRemoveAll(attrs, indexes) ==
    IF indexes = <<>> THEN attrs
    ELSE SwapRemoveAll(swap_remove(attrs, Head(indexes)), Tail(indexes))

\* RemoveHelperAttributesVisitor::visit on one attribute list: the indexes
\* are those of the old field and are taken in reverse.
RemoveHelperAttributes(old_attrs, attrs) ==
    SwapRemoveAll(attrs, Reverse(HelperIndexes(old_attrs)))

\* SetNewFieldVisibilityVisitor::visit
SetNewFieldVisibility(global_options, vis) ==
    IF global_options.make_fields_public THEN "pub" ELSE vis

\* SetNewFieldType wrapping the declared type, the nested type forgotten
\* when the field is wrapped.
SetNewFieldTypeWrapsDeclared(old_ty, field_options) ==
    IF field_options.wrapping_behavior THEN OptionTy(old_ty)
    ELSE IF field_options.new_type # <<>> THEN IdentTy(field_options.new_type[1])
    ELSE old_ty

\* SetNewFieldTypeVisitor::visit
SetNewFieldType(old_ty, field_options) ==
    LET new_type == IF field_options.new_type # <<>>
                    THEN IdentTy(field_options.new_type[1])
                    ELSE old_ty
    IN IF field_options.wrapping_behavior THEN OptionTy(new_type) ELSE new_type

\* GenerateCanConvertImpl::visit: the fragment
\*     #cfg_attr if !#inc { return false; }
\* where inc names the quoted expression.
CanConvertVisit(old_ty, field_options) ==
    LET is_wrapped == field_options.wrapping_behavior
        is_nested == field_options.new_type # <<>>
    IN [cfg_attr |-> field_options.cfg_attribute,
        ident |-> field_options.field_ident,
        inc |-> CASE is_wrapped /\ ~is_nested -> "is_some"
                  [] is_wrapped /\ is_nested -> "if_let_some_not_can_convert_else_false"
                  [] ~is_wrapped /\ is_nested -> "can_convert"
                  [] ~is_wrapped /\ ~is_nested -> "true"]

\* GenerateTryFromImpl::visit: the check fragment and the assignment
\* fragment  #cfg_attr #ident: v.#ident #unwrap,
TryFromVisit(old_ty, field_options) ==
    LET is_wrapped == field_options.wrapping_behavior
        is_nested == field_options.new_type # <<>>
    IN [check |->
            [cfg_attr |-> field_options.cfg_attribute,
             ident |-> field_options.field_ident,
             check |-> CASE is_wrapped /\ ~is_nested -> "if_is_none_err"
                         [] is_wrapped /\ is_nested -> "if_let_some_not_can_convert_err_else_err"
                         [] ~is_wrapped /\ is_nested -> "if_not_can_convert_err"
                         [] ~is_wrapped /\ ~is_nested -> "empty"],
        assign |->
            [cfg_attr |-> field_options.cfg_attribute,
             ident |-> field_options.field_ident,
             unwrap |-> CASE is_wrapped /\ ~is_nested -> "unwrap"
                          [] is_wrapped /\ is_nested -> "unwrap_try_into_unwrap"
                          [] ~is_wrapped /\ is_nested -> "try_into_unwrap"
                          [] ~is_wrapped /\ ~is_nested -> "as_is"]]

\* ApplyVisit with the is_some guard of the base-optional, unwrapped,
\* non-nested field forgotten: the field is always overwritten.
ApplyVisitUnguarded(old_ty, field_options) ==
    LET ident == field_options.field_ident
        is_wrapped == field_options.wrapping_behavior
        is_nested == field_options.new_type # <<>>
        is_base_opt == is_type_option(old_ty)
        frag(inc, source, assigned) ==
            [cfg_attr |-> field_options.cfg_attribute, ident |-> ident,
             inc |-> inc, source |-> source, assigned |-> assigned]
    IN CASE is_base_opt /\ ~is_wrapped /\ is_nested ->
                frag("match_option_nested", <<"nested", ident>>, "try_into_result")
         [] ~is_wrapped /\ is_nested ->
                frag("apply_to", <<"self", ident>>, "none")
         [] ~is_wrapped /\ ~is_nested ->
                frag("assign", <<"self", ident>>, "value")
         [] is_wrapped /\ is_nested ->
                frag("if_let_some_apply_to", <<"inner">>, "none")
         [] is_wrapped /\ ~is_nested ->
                frag("if_let_some_assign", <<"inner">>, "value")

\* GenerateApplyFnVisitor::visit: the fragment #cfg_attr #inc.  For the
\* match fragment, source is the expression that try_into and apply_to are
\* called on, as a path from the variables bound by the match arm, and
\* assigned says what is stored into t.#ident.
ApplyVisit(old_ty, field_options) ==
    LET ident == field_options.field_ident
        is_wrapped == field_options.wrapping_behavior
        is_nested == field_options.new_type # <<>>
        is_base_opt == is_type_option(old_ty)
        frag(inc, source, assigned) ==
            [cfg_attr |-> field_options.cfg_attribute, ident |-> ident,
             inc |-> inc, source |-> source, assigned |-> assigned]
    IN CASE is_base_opt /\ ~is_wrapped /\ is_nested ->
                frag("match_option_nested", <<"nested", ident>>, "try_into_result")
         [] is_base_opt /\ ~is_wrapped /\ ~is_nested ->
                frag("if_is_some_assign", <<"self", ident>>, "value")
         [] ~is_base_opt /\ ~is_wrapped /\ is_nested ->
                frag("apply_to", <<"self", ident>>, "none")
         [] ~is_base_opt /\ ~is_wrapped /\ ~is_nested ->
                frag("assign", <<"self", ident>>, "value")
         [] is_wrapped /\ is_nested ->
                frag("if_let_some_apply_to", <<"inner">>, "none")
         [] is_wrapped /\ ~is_nested ->
                frag("if_let_some_assign", <<"inner">>, "value")

\* ------------------------------------------------------------------------
\* visit_fields and the get_implementation functions
\* ------------------------------------------------------------------------
\* One iteration of the loop of visit_fields: the options of the field,
\* then every visitor in the order of opt_struct's visitors array.
VisitField(global_options, field, struct_index) ==
    LET field_options == FieldOptionsOf(global_options, field, struct_index)
        try_from == TryFromVisit(field.ty, field_options)
    IN [old_field |-> [field EXCEPT
                           !.attrs = RemoveHelperAttributes(field.attrs, field.attrs)],
        new_field |-> [field EXCEPT
                           !.attrs = RemoveHelperAttributes(field.attrs, field.attrs),
                           !.vis = SetNewFieldVisibility(global_options, field.vis),
                           !.ty = SetNewFieldType(field.ty, field_options)],
        apply_to |-> ApplyVisit(field.ty, field_options),
        check |-> try_from.check,
        assign |-> try_from.assign,
        can_convert |-> CanConvertVisit(field.ty, field_options)]

\* visit_fields, set_new_name and the three get_implementation calls: the
\* two structs and the three generated impls (the accumulated fragments,
\* in field order).
Generate(global_options, derive_input) ==
    LET n == Len(derive_input.fields)
        visited == [i \in 1..n |->
                        VisitField(global_options, derive_input.fields[i], i - 1)]
    IN [orig |-> [derive_input EXCEPT
                      !.fields = [i \in 1..n |-> visited[i].old_field]],
        new |-> [derive_input EXCEPT
                     !.ident = global_options.new_struct_name,
                     !.fields = [i \in 1..n |-> visited[i].new_field]],
        apply_to |-> [i \in 1..n |-> visited[i].apply_to],
        field_check_acc |-> [i \in 1..n |-> visited[i].check],
        field_assign_acc |-> [i \in 1..n |-> visited[i].assign],
        can_convert |-> [i \in 1..n |-> visited[i].can_convert]]

\* visit_fields panics on the input: borrow_fields takes structs only, and
\* a field may panic.
VisitFieldsPanics(derive_input) ==
    \/ derive_input.data # "Struct"
    \/ \E i \in 1..Len(derive_input.fields) : FieldPanics(derive_input.fields[i])

\* ------------------------------------------------------------------------
\* DeriveInputWrapper::get_derive_macros
\* ------------------------------------------------------------------------
\* quote!{#derived_trait}.to_string() == name: a path prints as its
\* segments joined by " :: ", so it prints as a bare name only when that
\* name is its single segment.
PrintsAs(path, name) == path = <<name>>

\* The paths that parse_nested_meta hands to the closure, over every
\* attribute of the struct, whatever the attribute is.
NestedMetaPaths(attrs) ==
    UNION {{attrs[i].args[j] : j \in 1..Len(attrs[i].args)} :
               i \in 1..Len(attrs)}

\* The HashSet left after the removals.
LeftToDerive(attrs, extra_derive) ==
    {extra_derive[k] : k \in 1..Len(extra_derive)}
        \ {extra_derive[k] : k \in
              {k \in 1..Len(extra_derive) :
                  \E path \in NestedMetaPaths(attrs) : PrintsAs(path, extra_derive[k])}}

\* acc = quote!{#left_trait_to_derive, #acc} for every element, in the
\* order the HashSet yields them: the emitted list is that order reversed.
DeriveMacros(iteration_order) == Reverse(iteration_order)

\* ------------------------------------------------------------------------
\* The program's state
\* ------------------------------------------------------------------------
VARIABLES
    attr,        \* the macro's argument tokens
    input,       \* the parsed DeriveInput: the base struct
    cfg_active,  \* whether the build enables the cfg guard of guarded fields
    pc,          \* "input", "expanded" or "panicked"
    output,      \* <<OptionalStructOutput>> once expanded
    call,        \* <<the last call of a generated operation>>
    again        \* <<what a second expansion of the same input returned>>

vars == <<attr, input, cfg_active, pc, output, call, again>>

\* ------------------------------------------------------------------------
\* The nested structs: declared elsewhere in the crate and expanded by the
\* same macro, without arguments
\* ------------------------------------------------------------------------
Struct(ident, attrs, fields) ==
    [ident |-> ident, attrs |-> attrs, data |-> "Struct", fields |-> fields]

\* #[optional_struct] struct Leaf { a: i32 }
LeafStruct == Struct("Leaf", <<>>, <<Field(<<"a">>, "inherited", I32, <<>>)>>)

\* #[optional_struct] struct Mid {
\*     #[optional_rename(OptionalLeaf)] #[optional_wrap] m: Leaf }
MidStruct ==
    Struct("Mid", <<>>,
           <<Field(<<"m">>, "inherited", IdentTy("Leaf"),
                   <<Attr(RENAME_ATTRIBUTE, <<"OptionalLeaf">>),
                     Attr(WRAP_ATTRIBUTE, <<>>)>>)>>)

NestedStructs == {LeafStruct, MidStruct}
BaseNames == {s.ident : s \in NestedStructs}
PartialNames == {OptionalName(s.ident) : s \in NestedStructs}
BaseOfPartial(name) == CHOOSE s \in NestedStructs : OptionalName(s.ident) = name

\* What opt_struct generates for a struct.
Expand(tokens, derive_input) ==
    Generate(GlobalOptionsNew(ParseMacroParameters(tokens), derive_input), derive_input)

\* The impls generated for a named partial struct.
ImplOfType(ty) == Expand(<<>>, BaseOfPartial(ty.segs[1]))

\* ------------------------------------------------------------------------
\* Instances of the structs
\* ------------------------------------------------------------------------
\* The cfg guard of a field or fragment is enabled.
Active(cfg_attr) == cfg_attr = <<>> \/ cfg_active

\* The identifier that generated code addresses the k-th field by (the
\* field_ident of visit_fields).
FieldIdent(fields, k) ==
    IF fields[k].ident # <<>> THEN fields[k].ident[1] ELSE k - 1

\* The values of a scalar field.  The generated code moves and stores them
\* and never looks into them: two are enough to tell a field that was
\* overwritten from one that was kept.
Scalars == {0, 1}

RECURSIVE ValuesOfType(_), InstancesFrom(_, _)
\* An Option is a sequence of at most one value, a struct a function of its
\* field identifiers.
ValuesOfType(ty) ==
    CASE ty.shape = "Paren" -> ValuesOfType(ty.elem[1])
      [] ty.shape = "Tuple" -> Scalars
      [] ty.shape = "Path" /\ is_path_option(ty) ->
            {<<>>} \cup {<<x>> : x \in ValuesOfType(ty.elem[1])}
      [] ty.shape = "Path" /\ ty.segs[1] \in BaseNames ->
            InstancesFrom((CHOOSE s \in NestedStructs : s.ident = ty.segs[1]).fields, 1)
      [] ty.shape = "Path" /\ ty.segs[1] \in PartialNames ->
            InstancesFrom(ImplOfType(ty).new.fields, 1)
      [] OTHER -> Scalars

\* The instances of a struct, from its k-th field on; a field whose cfg
\* guard is disabled is not part of the struct.
InstancesFrom(fields, k) ==
    IF k > Len(fields) THEN {<<>>}
    ELSE LET f == fields[k]
             guarded == \E j \in 1..Len(f.attrs) : f.attrs[j].path = CFG_ATTRIBUTE
             rest == InstancesFrom(fields, k + 1)
         IN IF guarded /\ ~cfg_active THEN rest
            ELSE {(FieldIdent(fields, k) :> x) @@ r : x \in ValuesOfType(f.ty), r \in rest}

InstancesOf(fields) == InstancesFrom(fields, 1)

\* ------------------------------------------------------------------------
\* The generated operations, run on instances
\* ------------------------------------------------------------------------
\* impl is what Generate returns for the struct: the partial struct (for
\* the static types of its fields) and the fragments of the three impls.
\* The k-th fragment of each impl addresses the k-th field.

\* fn can_convert(&self) -> bool { #acc true }
RECURSIVE CanConvertRun(_, _)
CanConvertRun(impl, self) ==
    \A k \in 1..Len(impl.can_convert) :
        LET fr == impl.can_convert[k]
            ty == impl.new.fields[k].ty
        IN Active(fr.cfg_attr) =>
            \* if !#inc { return false; }
            CASE fr.inc = "is_some" -> self[fr.ident] # <<>>
              [] fr.inc = "if_let_some_not_can_convert_else_false" ->
                    IF self[fr.ident] # <<>>
                    THEN ~CanConvertRun(ImplOfType(ty.elem[1]), self[fr.ident][1])
                    ELSE FALSE
              [] fr.inc = "can_convert" ->
                    CanConvertRun(ImplOfType(ty), self[fr.ident])
              [] fr.inc = "true" -> TRUE

Ok(x) == [tag |-> "Ok", val |-> x]
Err(x) == [tag |-> "Err", val |-> x]
Panic == [tag |-> "Panic", val |-> <<>>]

\* Option::unwrap and Result::unwrap
UnwrapOption(x) == IF x = <<>> THEN Panic ELSE Ok(x[1])
UnwrapResult(r) == IF r.tag = "Ok" THEN r ELSE Panic

\* fn try_from(v) -> Result<Self, Self::Error> {
\*     #field_check_acc Ok(Self { #field_assign_acc }) }
RECURSIVE TryFromRun(_, _)
TryFromRun(impl, v) ==
    LET n == Len(impl.field_check_acc)
        \* the check fragment of field k returns Err(v)
        Fails(k) ==
            LET fr == impl.field_check_acc[k]
                ty == impl.new.fields[k].ty
            IN Active(fr.cfg_attr) /\
                CASE fr.check = "if_is_none_err" -> v[fr.ident] = <<>>
                  [] fr.check = "if_let_some_not_can_convert_err_else_err" ->
                        IF v[fr.ident] # <<>>
                        THEN ~CanConvertRun(ImplOfType(ty.elem[1]), v[fr.ident][1])
                        ELSE TRUE
                  [] fr.check = "if_not_can_convert_err" ->
                        ~CanConvertRun(ImplOfType(ty), v[fr.ident])
                  [] fr.check = "empty" -> FALSE
        \* #ident: v.#ident #unwrap
        Assigned(k) ==
            LET fr == impl.field_assign_acc[k]
                ty == impl.new.fields[k].ty
                x == v[fr.ident]
            IN CASE fr.unwrap = "unwrap" -> UnwrapOption(x)
                 [] fr.unwrap = "unwrap_try_into_unwrap" ->
                       IF x = <<>> THEN Panic
                       ELSE UnwrapResult(TryFromRun(ImplOfType(ty.elem[1]), x[1]))
                 [] fr.unwrap = "try_into_unwrap" ->
                       UnwrapResult(TryFromRun(ImplOfType(ty), x))
                 [] fr.unwrap = "as_is" -> Ok(x)
        built == {k \in 1..n : Active(impl.field_assign_acc[k].cfg_attr)}
    IN IF \E k \in 1..n : Fails(k) THEN Err(v)
       ELSE IF \E k \in built : Assigned(k).tag = "Panic" THEN Panic
       ELSE Ok([id \in {impl.field_assign_acc[k].ident : k \in built} |->
                   Assigned(CHOOSE k \in built :
                                impl.field_assign_acc[k].ident = id).val])

\* fn apply_to(self, t: &mut Base) { #acc }: the value of t afterwards.
RECURSIVE ApplyToRun(_, _, _), ApplyToFrom(_, _, _, _)
ApplyToFrom(impl, self, t, k) ==
    IF k > Len(impl.apply_to) THEN t
    ELSE LET fr == impl.apply_to[k]
             ty == impl.new.fields[k].ty
             id == fr.ident
             after ==
                IF ~Active(fr.cfg_attr) THEN t
                ELSE CASE fr.inc = "if_is_some_assign" ->
                            IF self[id] # <<>> THEN [t EXCEPT ![id] = self[id]] ELSE t
                       [] fr.inc = "apply_to" ->
                            [t EXCEPT ![id] = ApplyToRun(ImplOfType(ty), self[id], t[id])]
                       [] fr.inc = "assign" -> [t EXCEPT ![id] = self[id]]
                       [] fr.inc = "if_let_some_apply_to" ->
                            IF self[id] # <<>>
                            THEN [t EXCEPT ![id] =
                                     ApplyToRun(ImplOfType(ty.elem[1]), self[id][1], t[id])]
                            ELSE t
                       [] fr.inc = "if_let_some_assign" ->
                            IF self[id] # <<>> THEN [t EXCEPT ![id] = self[id][1]] ELSE t
         IN ApplyToFrom(impl, self, after, k + 1)

ApplyToRun(impl, self, t) == ApplyToFrom(impl, self, t, 1)

\* The generated code type-checks.  A fragment that calls can_convert,
\* try_into or apply_to on a field needs the field's partial type to be
\* the partial struct of the field's base type; the match fragment assigns
\* the Result of try_into to an Option field and never type-checks.
Compiles(derive_input, impl) ==
    \A k \in 1..Len(impl.apply_to) :
        LET old_ty == derive_input.fields[k].ty
            new_ty == impl.new.fields[k].ty
            nested_ty == IF impl.apply_to[k].inc = "if_let_some_apply_to"
                         THEN new_ty.elem[1] ELSE new_ty
        IN /\ impl.apply_to[k].inc # "match_option_nested"
           /\ impl.apply_to[k].inc \in {"apply_to", "if_let_some_apply_to"} =>
                /\ nested_ty.segs[1] \in PartialNames
                /\ old_ty = IdentTy(BaseOfPartial(nested_ty.segs[1]).ident)

\* ------------------------------------------------------------------------
\* Inputs
\* ------------------------------------------------------------------------
FieldName(k) == CASE k = 1 -> "x" [] k = 2 -> "y" [] k = 3 -> "z" [] OTHER -> "w"

Rename(name) == Attr(RENAME_ATTRIBUTE, <<name>>)
SkipWrap == Attr(SKIP_WRAP_ATTRIBUTE, <<>>)
Wrap == Attr(WRAP_ATTRIBUTE, <<>>)
Cfg == Attr(CFG_ATTRIBUTE, <<"feature">>)
Doc(text) == Attr("doc", <<text>>)
Derive(paths) == Attr("derive", paths)

Decl(ty, attrs) == [ty |-> ty, attrs |-> attrs]

\* Field declarations of the structs whose generated code is run: every
\* class of field, nesting of depth one and two, a guarded field, and two
\* declarations the expansion or the compiler rejects.
RunDecls ==
    {Decl(I32, <<>>),
     Decl(I32, <<SkipWrap>>),
     Decl(OptionTy(I32), <<>>),
     Decl(OptionTy(I32), <<Wrap>>),
     Decl(IdentTy("Leaf"), <<Rename("OptionalLeaf")>>),
     Decl(IdentTy("Leaf"), <<Rename("OptionalLeaf"), Wrap>>),
     Decl(IdentTy("Mid"), <<Rename("OptionalMid")>>),
     Decl(I32, <<Cfg>>),
     Decl(OptionTy(IdentTy("Leaf")), <<Rename("OptionalLeaf")>>),
     Decl(ReferenceTy(I32), <<>>)}

\* The fields of a struct from a sequence of declarations.
FieldsOf(decls, named) ==
    [k \in 1..Len(decls) |->
        Field(IF named THEN <<FieldName(k)>> ELSE <<>>, "inherited",
              decls[k].ty, decls[k].attrs)]

RunStructs ==
    {Struct("Foo", <<Derive(<<(<<"Clone">>), (<<"PartialEq">>), (<<"Default">>)>>)>>,
            FieldsOf(decls, TRUE)) :
        decls \in SeqsUpTo(RunDecls, MaxFields) \ {<<>>}}

\* Field declarations of the structs that are merged: every class of field
\* whose merge fragment type-checks, a guarded field, and a wrapped nested
\* Option field, whose fragment is generated but does not type-check.
ApplyDecls ==
    {Decl(I32, <<>>),
     Decl(I32, <<SkipWrap>>),
     Decl(OptionTy(I32), <<>>),
     Decl(OptionTy(I32), <<Wrap>>),
     Decl(IdentTy("Leaf"), <<Rename("OptionalLeaf")>>),
     Decl(IdentTy("Leaf"), <<Rename("OptionalLeaf"), Wrap>>),
     Decl(I32, <<Cfg>>),
     Decl(OptionTy(IdentTy("Leaf")), <<Rename("OptionalLeaf"), Wrap>>)}

ApplyStructs ==
    {Struct("Foo", <<Derive(<<(<<"Clone">>), (<<"PartialEq">>), (<<"Default">>)>>)>>,
            FieldsOf(decls, TRUE)) :
        decls \in SeqsUpTo(ApplyDecls, MaxFields) \ {<<>>}}

\* The structs whose first field varies over the declared types and over
\* every list of annotations: a named struct of that field alone, a tuple
\* struct with a second field, and a named struct whose second field has a
\* rename annotation without argument.
FieldAttributes ==
    {Rename("OptionalLeaf"), Rename("OptionalMid"), SkipWrap, Wrap, Cfg, Doc("text")}

DeclaredTypes ==
    {I32, OptionTy(I32), PathTy(<<"std", "option", "Option">>, <<I32>>),
     ParenTy(OptionTy(I32)), ReferenceTy(I32)}

Layouts ==
    {[second |-> <<>>, named |-> TRUE],
     [second |-> <<Decl(TupleTy, <<>>)>>, named |-> FALSE],
     [second |-> <<Decl(I32, <<Attr(RENAME_ATTRIBUTE, <<>>)>>)>>, named |-> TRUE]}

FieldStructs ==
    {Struct("Foo", <<Derive(<<(<<"Clone">>), (<<"PartialEq">>), (<<"Default">>)>>)>>,
            FieldsOf(<<Decl(ty, attrs)>> \o layout.second, layout.named)) :
        ty \in DeclaredTypes, attrs \in SeqsUpTo(FieldAttributes, MaxAttrs),
        layout \in Layouts}

\* The inputs whose own attributes vary: derives by bare and by qualified
\* path, and attributes other than derive; structs, and enums, which the
\* macro rejects.
StructAttributes ==
    {Derive(<<(<<"Debug">>)>>),
     Derive(<<(<<"Clone">>), (<<"PartialEq">>)>>),
     Derive(<<(<<"std", "fmt", "Debug">>), (<<"Default">>)>>),
     Attr("serde", <<(<<"Default">>)>>),
     Attr("repr", <<(<<"C">>)>>)}

DeriveStructs ==
    {[Struct("Foo", attrs, FieldsOf(<<Decl(ty, <<>>)>>, TRUE)) EXCEPT !.data = data] :
        attrs \in SeqsUpTo(StructAttributes, MaxStructAttrs),
        ty \in {I32, ReferenceTy(I32)}, data \in {"Struct", "Enum"}}

\* ------------------------------------------------------------------------
\* Actions
\* ------------------------------------------------------------------------
\* opt_struct panics on arguments that do not parse and in visit_fields.
OptStructPanics(attr_tokens, derive_input) ==
    MacroParametersPanic(attr_tokens) \/ VisitFieldsPanics(derive_input)

\* What opt_struct can return for one input: the original struct and the
\* generated items.  The fields' visitors are functions of the input; the
\* derive list follows the iteration order of a HashSet of the standard
\* library, whose hasher is seeded at random for every set.
Expansions(attr_tokens, derive_input) ==
    LET macro_params == GlobalOptionsNew(ParseMacroParameters(attr_tokens), derive_input)
        gen == Generate(macro_params, derive_input)
    IN {[original |-> gen.orig,
         derives |-> DeriveMacros(order),
         new |-> gen.new,
         apply_to |-> gen.apply_to,
         field_check_acc |-> gen.field_check_acc,
         field_assign_acc |-> gen.field_assign_acc,
         can_convert |-> gen.can_convert] :
            order \in Orderings(LeftToDerive(derive_input.attrs,
                                             macro_params.extra_derive))}

\* opt_struct: the whole expansion.
opt_struct ==
    /\ pc = "input"
    /\ IF OptStructPanics(attr, input)
          THEN /\ pc' = "panicked"
               /\ output' = <<>>
          ELSE \E out \in Expansions(attr, input) :
                 /\ pc' = "expanded"
                 /\ output' = <<out>>
    /\ UNCHANGED <<attr, input, cfg_active, call, again>>

\* opt_struct once more on the same arguments and the same input, as another
\* build of the same crate runs it: it shares nothing with the first run
\* but its inputs.
opt_struct_again ==
    /\ pc \in {"expanded", "panicked"}
    /\ again = <<>>
    /\ IF OptStructPanics(attr, input)
          THEN again' = <<Panic>>
          ELSE \E out \in Expansions(attr, input) : again' = <<out>>
    /\ UNCHANGED <<attr, input, cfg_active, pc, output, call>>

\* The generated operations are pure: the state they run in is the expanded
\* code alone, and one call after the expansion shows all they can do.
Runnable == pc = "expanded" /\ call = <<>> /\ Compiles(input, output[1])

\* A call of the generated can_convert.
can_convert ==
    /\ Runnable
    /\ \E self \in InstancesOf(output[1].new.fields) :
          call' = <<[op |-> "can_convert", self |-> self, t |-> <<>>,
                     ret |-> CanConvertRun(output[1], self)]>>
    /\ UNCHANGED <<attr, input, cfg_active, pc, output, again>>

\* A call of the generated try_from.
try_from ==
    /\ Runnable
    /\ \E v \in InstancesOf(output[1].new.fields) :
          call' = <<[op |-> "try_from", self |-> v, t |-> <<>>,
                     ret |-> TryFromRun(output[1], v)]>>
    /\ UNCHANGED <<attr, input, cfg_active, pc, output, again>>

\* A call of the generated apply_to; ret is the base instance afterwards.
apply_to ==
    /\ Runnable
    /\ \E self \in InstancesOf(output[1].new.fields),
          t \in InstancesOf(output[1].original.fields) :
          call' = <<[op |-> "apply_to", self |-> self, t |-> t,
                     ret |-> ApplyToRun(output[1], self, t)]>>
    /\ UNCHANGED <<attr, input, cfg_active, pc, output, again>>

\* ------------------------------------------------------------------------
\* Specifications
\* ------------------------------------------------------------------------
\* The builds of a struct: with and without the guarded feature when a
\* field is guarded; the setting is never read otherwise.
Builds(derive_input) ==
    IF \E k \in 1..Len(derive_input.fields) :
           \E j \in 1..Len(derive_input.fields[k].attrs) :
               derive_input.fields[k].attrs[j].path = CFG_ATTRIBUTE
    THEN BOOLEAN ELSE {TRUE}

InitWith(attrs, inputs) ==
    /\ attr \in attrs
    /\ input \in inputs
    /\ cfg_active \in Builds(input)
    /\ pc = "input"
    /\ output = <<>>
    /\ call = <<>>
    /\ again = <<>>

\* The expansion, then the completeness predicate or the conversion.
Init == InitWith({<<>>, <<"Patch", ",", "false">>}, RunStructs)
Next == opt_struct \/ can_convert \/ try_from
Spec == Init /\ [][Next]_vars

\* The expansion, then the merge.
InitApply == InitWith({<<>>}, ApplyStructs)
NextApply == opt_struct \/ apply_to
SpecApply == InitApply /\ [][NextApply]_vars

\* The expansion alone, over the annotations of a field.
InitFields == InitWith({<<>>, <<"Patch", ",", "false">>}, FieldStructs)
NextExpand == opt_struct
SpecFields == InitFields /\ [][NextExpand]_vars

\* The expansion alone, over the attributes of the struct.
InitDerives == InitWith({<<>>, <<"Patch">>, <<"Patch", "true">>}, DeriveStructs)
SpecDerives == InitDerives /\ [][NextExpand]_vars

\* Two expansions of the same input, over the attributes of the struct and
\* over the fields of the structs that are run.
InitTwice ==
    InitWith({<<>>, <<"Patch", ",", "false">>}, DeriveStructs \cup RunStructs)
NextTwice == opt_struct \/ opt_struct_again
SpecTwice == InitTwice /\ [][NextTwice]_vars

\* ------------------------------------------------------------------------
\* Properties
\* ------------------------------------------------------------------------
Called(op) == call # <<>> /\ call[1].op = op
NumFields == Len(input.fields)
Options(k) ==
    FieldOptionsOf(GlobalOptionsNew(ParseMacroParameters(attr), input),
                   input.fields[k], k - 1)
IsWrapped(k) == Options(k).wrapping_behavior
IsNested(k) == Options(k).new_type # <<>>
IsBaseOptional(k) == is_type_option(input.fields[k].ty)
\* The fields that exist in this build.
Built == {k \in 1..NumFields : Active(Options(k).cfg_attribute)}
Ident(k) == FieldIdent(input.fields, k)
\* The impls of the nested partial type of field k.
NestedImpl(k) == ImplOfType(IdentTy(Options(k).new_type[1]))

\* The value the conversion is to give field k of the base instance: the
\* partial field unwrapped if it is wrapped, converted if it is nested.
Extracted(k, v) ==
    LET x == IF IsWrapped(k) THEN v[Ident(k)][1] ELSE v[Ident(k)]
    IN IF IsNested(k) THEN TryFromRun(NestedImpl(k), x) ELSE Ok(x)

\* C1: whenever can_convert holds of a partial instance, try_from of it
\* succeeds, and every field of the base instance it returns is the
\* partial field unwrapped (if wrapped) and converted (if nested).
C1_CompleteConverts ==
    Called("try_from") /\ CanConvertRun(output[1], call[1].self) =>
        /\ call[1].ret.tag = "Ok"
        /\ \A k \in Built :
              call[1].ret.val[Ident(k)] = Extracted(k, call[1].self).val

\* C2: whenever can_convert does not hold of a partial instance, try_from
\* of it fails and the error is that partial instance.
C2_IncompleteFails ==
    Called("try_from") /\ ~CanConvertRun(output[1], call[1].self) =>
        call[1].ret = Err(call[1].self)

\* The contribution of field k to the completeness predicate, by the table
\* of the (isWrapped, isNested) classes.
Contribution(k, self) ==
    LET x == self[Ident(k)]
    IN CASE IsWrapped(k) /\ ~IsNested(k) -> x # <<>>
         [] IsWrapped(k) /\ IsNested(k) ->
                x = <<>> \/ CanConvertRun(NestedImpl(k), x[1])
         [] ~IsWrapped(k) /\ IsNested(k) -> CanConvertRun(NestedImpl(k), x)
         [] ~IsWrapped(k) /\ ~IsNested(k) -> TRUE

\* C3: can_convert is the conjunction over the fields of the contribution
\* of each field's class; a wrapped nested field contributes "absent, or
\* present with a complete inner value".
C3_PredicateIsTable ==
    Called("can_convert") =>
        call[1].ret = (\A k \in Built : Contribution(k, call[1].self))

\* The pre-check of field k in the conversion, by class.
PreCheck(k, v) ==
    LET x == v[Ident(k)]
    IN CASE IsWrapped(k) /\ ~IsNested(k) -> x # <<>>
         [] IsWrapped(k) /\ IsNested(k) ->
                x # <<>> /\ CanConvertRun(NestedImpl(k), x[1])
         [] ~IsWrapped(k) /\ IsNested(k) -> CanConvertRun(NestedImpl(k), x)
         [] ~IsWrapped(k) /\ ~IsNested(k) -> TRUE

\* C4: try_from fails exactly when the pre-check of some field fails, it
\* then returns the partial instance it was given, and it succeeds
\* otherwise: it has no third outcome.
C4_CheckThenAssign ==
    Called("try_from") =>
        IF \E k \in Built : ~PreCheck(k, call[1].self)
        THEN call[1].ret = Err(call[1].self)
        ELSE call[1].ret.tag = "Ok"

\* C5: for a base-optional, unwrapped, nested field the merge fragment
\* converts, and merges, the nested partial value itself, and stores the
\* converted value only if the conversion succeeded.
C5_OptionalNestedMerge ==
    pc = "expanded" =>
        \A k \in 1..NumFields :
            IsBaseOptional(k) /\ ~IsWrapped(k) /\ IsNested(k) =>
                /\ output[1].apply_to[k].inc = "match_option_nested"
                /\ output[1].apply_to[k].source = <<"nested">>
                /\ output[1].apply_to[k].assigned = "value_if_ok"

\* The base field k after the merge of self into t, by the table of the
\* classes other than (base-optional, unwrapped, nested).
Merged(k, self, t) ==
    LET x == self[Ident(k)]
        old == t[Ident(k)]
    IN CASE IsWrapped(k) ->
                IF x = <<>> THEN old
                ELSE IF IsNested(k) THEN ApplyToRun(NestedImpl(k), x[1], old)
                ELSE x[1]
         [] ~IsWrapped(k) /\ IsBaseOptional(k) /\ ~IsNested(k) ->
                IF x = <<>> THEN old ELSE x
         [] ~IsWrapped(k) /\ ~IsBaseOptional(k) ->
                IF IsNested(k) THEN ApplyToRun(NestedImpl(k), x, old) ELSE x

\* The merge fragment of field k is the one its class selects.
MergeFragment(k) ==
    CASE IsWrapped(k) /\ IsNested(k) -> "if_let_some_apply_to"
      [] IsWrapped(k) /\ ~IsNested(k) -> "if_let_some_assign"
      [] ~IsWrapped(k) /\ IsBaseOptional(k) /\ ~IsNested(k) -> "if_is_some_assign"
      [] ~IsWrapped(k) /\ ~IsBaseOptional(k) /\ IsNested(k) -> "apply_to"
      [] ~IsWrapped(k) /\ ~IsBaseOptional(k) /\ ~IsNested(k) -> "assign"

\* C6: every field outside the (base-optional, unwrapped, nested) class
\* gets the merge fragment of its class, and after apply_to its base field
\* holds what the table gives for its own partial field (unchanged when
\* that is absent, overwritten or merged into when it is present or
\* mandatory); the result has the fields of the base instance it started
\* from: the merge has no failure outcome.
C6_MergeTable ==
    /\ pc = "expanded" =>
          \A k \in 1..NumFields :
              ~(IsBaseOptional(k) /\ ~IsWrapped(k) /\ IsNested(k)) =>
                  output[1].apply_to[k].inc = MergeFragment(k)
    /\ Called("apply_to") =>
          /\ DOMAIN call[1].ret = DOMAIN call[1].t
          /\ \A k \in Built :
                ~(IsBaseOptional(k) /\ ~IsWrapped(k) /\ IsNested(k)) =>
                    call[1].ret[Ident(k)] = Merged(k, call[1].self, call[1].t)

\* A merge of two fields: one wrapped field is present and overwrites a
\* different base value, the other is absent and its base field stays.
C6_Witness ==
    /\ Called("apply_to")
    /\ \E k, j \in Built :
          /\ k # j
          /\ IsWrapped(k) /\ ~IsNested(k) /\ IsWrapped(j)
          /\ call[1].self[Ident(k)] # <<>>
          /\ call[1].ret[Ident(k)] # call[1].t[Ident(k)]
          /\ call[1].self[Ident(j)] = <<>>
          /\ call[1].ret[Ident(j)] = call[1].t[Ident(j)]

\* ------------------------------------------------------------------------
\* Properties of the expansion
\* ------------------------------------------------------------------------
\* The declared type has the shape of an Option: a path whose last segment
\* is Option, possibly in parentheses.
RECURSIVE OptionShaped(_)
OptionShaped(ty) ==
    IF ty.shape = "Paren" THEN OptionShaped(ty.elem[1])
    ELSE ty.shape = "Path" /\ ty.segs[Len(ty.segs)] = "Option"

Max(S) == CHOOSE x \in S : \A y \in S : y <= x
Annotations(k) == input.fields[k].attrs
\* The positions of the rename, skip-wrap and wrap annotations of field k,
\* and of its rename annotations.
Deciding(k) ==
    {i \in 1..Len(Annotations(k)) :
        Annotations(k)[i].path \in {"optional_rename", "optional_skip_wrap", "optional_wrap"}}
Renaming(k) ==
    {i \in 1..Len(Annotations(k)) : Annotations(k)[i].path = "optional_rename"}

\* Last write wins: the wrapping of field k is decided by its last rename,
\* skip-wrap or wrap annotation, and by the default without one.
LastWrapping(k) ==
    IF Deciding(k) = {}
    THEN ~OptionShaped(input.fields[k].ty) /\ ParseMacroParameters(attr).default_wrapping
    ELSE Annotations(k)[Max(Deciding(k))].path = "optional_wrap"

\* The nested type of field k: the argument of its last rename annotation.
LastNested(k) ==
    IF Renaming(k) = {} THEN <<>>
    ELSE <<Annotations(k)[Max(Renaming(k))].args[1]>>

\* C7: the class that the generated code of every field is selected by is
\* the last-write-wins class of that field's own annotations: wrapped as
\* its last rename/skip-wrap/wrap annotation says (the default without
\* one), nested in the argument of its last rename annotation.
C7_LastWriteWins ==
    pc = "expanded" =>
        \A k \in 1..NumFields :
            /\ output[1].can_convert[k].inc =
                  (CASE LastWrapping(k) /\ LastNested(k) = <<>> -> "is_some"
                     [] LastWrapping(k) /\ LastNested(k) # <<>> ->
                            "if_let_some_not_can_convert_else_false"
                     [] ~LastWrapping(k) /\ LastNested(k) # <<>> -> "can_convert"
                     [] ~LastWrapping(k) /\ LastNested(k) = <<>> -> "true")
            /\ LastNested(k) # <<>> =>
                  output[1].new.fields[k].ty \in
                      {IdentTy(LastNested(k)[1]), OptionTy(IdentTy(LastNested(k)[1]))}

\* A field whose annotations disagree: a wrap, then a rename, then a
\* second rename; the last rename decides both the wrapping and the type.
C7_Witness ==
    /\ pc = "expanded"
    /\ \E k \in 1..NumFields :
          /\ Cardinality(Renaming(k)) = 2
          /\ \E i \in Deciding(k) :
                i < Max(Renaming(k)) /\ Annotations(k)[i].path = "optional_wrap"
          /\ Max(Deciding(k)) = Max(Renaming(k))
          /\ Annotations(k)[Max(Renaming(k))].args
                # Annotations(k)[CHOOSE i \in Renaming(k) : i # Max(Renaming(k))].args
          /\ output[1].can_convert[k].inc = "can_convert"

NonHelpers(attrs) ==
    SelectSeq(attrs, LAMBDA a :
        a.path \notin {"optional_rename", "optional_skip_wrap", "optional_wrap"})

\* C8: the emitted base struct is the input struct with, on every field,
\* exactly the non-helper annotations in their original order; the same
\* annotations, and no helper, are on the fields of the partial struct.
C8_HelpersStripped ==
    pc = "expanded" =>
        /\ output[1].original =
              [input EXCEPT !.fields =
                  [k \in 1..NumFields |->
                      [input.fields[k] EXCEPT !.attrs = NonHelpers(input.fields[k].attrs)]]]
        /\ \A k \in 1..NumFields :
              output[1].new.fields[k].attrs = NonHelpers(input.fields[k].attrs)

\* The type the partial field k is to have.
PartialType(k) ==
    LET base == IF LastNested(k) # <<>> THEN IdentTy(LastNested(k)[1])
                ELSE input.fields[k].ty
    IN IF LastWrapping(k) THEN OptionTy(base) ELSE base

\* C10: the type of every partial field is the rename annotation's type if
\* the field is nested and its declared type otherwise, inside an Option
\* exactly if the field is wrapped; so an Option field without annotations
\* keeps its declared type, and a field renamed and then wrapped gets the
\* Option of the nested type.
C10_PartialFieldType ==
    pc = "expanded" =>
        \A k \in 1..NumFields :
            /\ output[1].new.fields[k].ty = PartialType(k)
            /\ OptionShaped(input.fields[k].ty) /\ Annotations(k) = <<>> =>
                  output[1].new.fields[k].ty = input.fields[k].ty
            /\ /\ Len(Annotations(k)) = 2
               /\ Annotations(k)[1].path = "optional_rename"
               /\ Annotations(k)[2].path = "optional_wrap"
               => output[1].new.fields[k].ty = OptionTy(IdentTy(Annotations(k)[1].args[1]))

\* A field renamed and then wrapped, in a struct expanded under the
\* default-wrap policy: its partial type is the Option of the nested type.
C10_Witness ==
    /\ pc = "expanded"
    /\ ParseMacroParameters(attr).default_wrapping
    /\ Len(Annotations(1)) = 2
    /\ Annotations(1)[1].path = "optional_rename"
    /\ Annotations(1)[2].path = "optional_wrap"
    /\ output[1].new.fields[1].ty = OptionTy(IdentTy("OptionalLeaf"))
    /\ output[1].new.fields[1].ty # OptionTy(input.fields[1].ty)

\* The capabilities the base struct derives: the last segments of the
\* paths in its derive attributes.
BaseDerives ==
    {p[Len(p)] : p \in NestedMetaPaths(
        SelectSeq(input.attrs, LAMBDA a : a.path = "derive"))}

\* C9: the capabilities attached to the partial struct are the four
\* defaults without those the base struct derives, each once.
C9_DerivesOnce ==
    pc = "expanded" =>
        /\ {output[1].derives[i] : i \in 1..Len(output[1].derives)} =
              {"PartialEq", "Default", "Clone", "Debug"} \ BaseDerives
        /\ Len(output[1].derives) = Cardinality({output[1].derives[i] :
                                                    i \in 1..Len(output[1].derives)})

\* C11: two runs of opt_struct on the same arguments and the same input
\* return the same output: the same partial struct with the same derive
\* list as emitted, and the same three generated operations.
C11_Deterministic ==
    (pc = "expanded" /\ again # <<>>) => again[1] = output[1]

====
